---------------------------- MODULE Spec2Model ----------------------------
(***************************************************************************)
(* BeatMarker Pro: the App component (src/App.tsx), the export service     *)
(* (src/unnamed/part_000, imported as ./services/exportService) and the    *)
(* audio engine (./services/audioEngine, whose source is not available and *)
(* which is modelled from the specification, sections 4.1 - 4.3).          *)
(*                                                                         *)
(* Time.  Every time value (seconds, a float in the program) is a natural  *)
(* number of ticks, TicksPerSecond ticks to the second, so that one tick   *)
(* is half a millisecond and toFixed(3) has something to round.            *)
(***************************************************************************)
EXTENDS Integers, Sequences, FiniteSets, TLC

VARIABLES
    file,               \* useState file: NoFile or the selected file
    audioBuffer,        \* useState audioBuffer: NoBuffer or a decoded buffer
    markers,            \* useState markers: sequence of Marker records
    isAnalyzing,        \* useState isAnalyzing
    selectedMarkerId,   \* useState selectedMarkerId: NULL or an id
    config,             \* useState config: AnalysisConfig
    currentTime,        \* useState currentTime (ticks)
    isPlaying,          \* useState isPlaying
    ctxTime,            \* audioContextRef.current.currentTime (the audio clock)
    sourceNodeRef,      \* the AudioBufferSourceNode last started, or NoSource
    startTimeRef,       \* useRef startTimeRef
    pauseOffsetRef,     \* useRef pauseOffsetRef
    animationFrameRef,  \* the scheduled updateProgress closure, or NoFrame
    decoding,           \* handleFileUpload calls suspended at their awaits
    analysis,           \* the runAnalysis callbacks scheduled or suspended
    exported,           \* what the last step handed to the browser as a download
    lastOp              \* the call the last step made, where a specification
                        \* records it (an observer, not program state)

vars == <<file, audioBuffer, markers, isAnalyzing, selectedMarkerId, config,
          currentTime, isPlaying, ctxTime, sourceNodeRef, startTimeRef,
          pauseOffsetRef, animationFrameRef, decoding, analysis, exported,
          lastOp>>

---------------------------------------------------------------------------
(* Units and bounds *)

TicksPerSecond == 2 * 1000
TicksPerMs == TicksPerSecond \div 1000

\* The audio clock is observed every ClockStep ticks (199.5 ms), MaxSteps times.
ClockStep == 399
MaxSteps == 2
\* The timeline holds at most MaxMarkers markers in the model.
MaxMarkers == 3
\* At most MaxDecodes handleFileUpload calls are suspended at once.
MaxDecodes == 2
\* At most MaxRuns analysis callbacks exist at once in the model.
MaxRuns == 2

NULL == "null"
NoFile == "none"
FileNames == {"long.wav", "short.wav"}

\* A decoded buffer: its duration and its samples (absolute amplitudes, one
\* every SampleTicks ticks).
SampleTicks == TicksPerSecond \div 20
NoBuffer == [duration |-> 0, samples |-> << >>]

\* decodeAudioData: the buffer a file decodes to (0.8 s and 0.2 s of audio).
DecodeAudioData(f) ==
    IF f = "long.wav"
    THEN [duration |-> 16 * SampleTicks,
          samples |-> <<0, 0, 3, 1, 0, 0, 0, 0, 3, 0, 0, 0, 2, 2, 4, 1>>]
    ELSE [duration |-> 4 * SampleTicks, samples |-> <<0, 0, 2, 0>>]

Max(a, b) == IF a >= b THEN a ELSE b
Min(a, b) == IF a <= b THEN a ELSE b

---------------------------------------------------------------------------
(* AnalysisConfig (src/App.tsx:14-18) and the values its controls can give it *)

InitialConfig == [sensitivity |-> 70, minDistance |-> 500, aggressiveMode |-> FALSE]
\* sensitivity in hundredths (range input, 0..1 step 0.01)
SensitivityValues == {70, 100}
\* minDistance in ticks (range input, 0.05..2 step 0.05 seconds)
MinDistanceValues == {500, 700}

---------------------------------------------------------------------------
(* The audio engine: analyzeBeats(audioBuffer, config).  Sections 4.1-4.3  *)
(* of the specification: mono energy per frame, half-wave rectified energy *)
(* rise as onset strength, adaptive threshold, local maxima, greedy        *)
(* minimum-distance selection, markers "Beat N".                           *)

RECURSIVE SumSeq(_)
SumSeq(s) == IF s = << >> THEN 0 ELSE Head(s) + SumSeq(Tail(s))

\* Samples per analysis frame (hop = frame length); aggressive mode uses the
\* shorter frame.
FrameLength(cfg) == IF cfg.aggressiveMode THEN 1 ELSE 2

FrameTicks(cfg) == FrameLength(cfg) * SampleTicks

FrameEnergy(buf, cfg) ==
    LET n == FrameLength(cfg)
    IN  [k \in 1..(Len(buf.samples) \div n) |->
            SumSeq([j \in 1..n |-> buf.samples[(k - 1) * n + j]
                                    * buf.samples[(k - 1) * n + j]])]

\* Onset strength: the positive part of the energy rise from the frame before.
OnsetStrength(buf, cfg) ==
    LET e == FrameEnergy(buf, cfg)
    IN  [k \in 1..Len(e) |-> IF k = 1 THEN 0 ELSE Max(0, e[k] - e[k - 1])]

\* Threshold scale in hundredths: smaller for higher sensitivity, halved in
\* aggressive mode.
ThresholdScale(cfg) ==
    LET base == 250 - 2 * cfg.sensitivity
    IN  IF cfg.aggressiveMode THEN base \div 2 ELSE base

\* strength[k] exceeds scale * (moving average over k-1..k+1), and the
\* threshold has a strictly positive floor.
ExceedsThreshold(s, k, cfg) ==
    LET lo == Max(1, k - 1)
        hi == Min(Len(s), k + 1)
    IN  /\ s[k] > 0
        /\ s[k] * 100 * (hi - lo + 1) > ThresholdScale(cfg) * SumSeq(SubSeq(s, lo, hi))

\* Local maximum with ties allowed on both sides.
IsLocalMaxNonStrict(s, k) ==
    /\ k > 1 => s[k] >= s[k - 1]
    /\ k < Len(s) => s[k] >= s[k + 1]

\* Local maximum: strictly greater than the frame before, greater than or
\* equal to the frame after.
IsLocalMax(s, k) ==
    /\ k > 1 => s[k] > s[k - 1]
    /\ k < Len(s) => s[k] >= s[k + 1]

\* The raw candidates, as frame indices in time order.
RawCandidates(s, cfg) ==
    SelectSeq([k \in 1..Len(s) |-> k],
              LAMBDA k : ExceedsThreshold(s, k, cfg) /\ IsLocalMax(s, k))

FrameTime(k, cfg) == (k - 1) * FrameTicks(cfg)

\* Acceptance without the minimum-distance test.
AcceptsAll(acc, t, cfg) == TRUE

\* Whether a candidate at time t is accepted after the accepted times acc.
Accepts(acc, t, cfg) == acc = << >> \/ t - acc[Len(acc)] >= cfg.minDistance

\* Greedy left-to-right selection over the candidate times.
RECURSIVE GreedySelect(_, _, _)
GreedySelect(times, acc, cfg) ==
    IF times = << >> THEN acc
    ELSE GreedySelect(Tail(times),
                      IF Accepts(acc, Head(times), cfg)
                      THEN Append(acc, Head(times)) ELSE acc,
                      cfg)

Palette == <<"#3b82f6", "#22d3ee">>

BeatMarker(n, t) ==
    [id |-> "b" \o ToString(n), time |-> t, label |-> "Beat " \o ToString(n),
     color |-> Palette[((n - 1) % Len(Palette)) + 1]]

analyzeBeats(buf, cfg) ==
    LET s == OnsetStrength(buf, cfg)
        cand == RawCandidates(s, cfg)
        times == GreedySelect([i \in 1..Len(cand) |-> FrameTime(cand[i], cfg)],
                              << >>, cfg)
    IN  [n \in 1..Len(times) |-> BeatMarker(n, times[n])]

---------------------------------------------------------------------------
(* The marker timeline (src/App.tsx) *)

\* The strings Math.random().toString(36).substr(2, 9) can return.
RandomIds == {"r1", "r2"}

\* Number.prototype.toFixed(3) followed by parseFloat: the nearest whole
\* millisecond, halves rounded up, as a time in ticks.
toFixed3(t) == ((2 * t + TicksPerMs) \div (2 * TicksPerMs)) * TicksPerMs

\* The marker addMarkerManual builds (src/App.tsx:102-107).
ManualMarker(id, t) ==
    [id |-> id, time |-> toFixed3(t), label |-> "Manual Beat", color |-> "#ec4899"]

\* The insertion of a sort that is not stable: m goes before its equals.
InsertByTimeBeforeTies(s, m) ==
    LET k == Cardinality({i \in 1..Len(s) : s[i].time < m.time})
    IN  SubSeq(s, 1, k) \o <<m>> \o SubSeq(s, k + 1, Len(s))

\* s is sorted; m goes after every element whose time is <= m.time.
InsertByTime(s, m) ==
    LET k == Cardinality({i \in 1..Len(s) : s[i].time <= m.time})
    IN  SubSeq(s, 1, k) \o <<m>> \o SubSeq(s, k + 1, Len(s))

\* Array.prototype.sort((a, b) => a.time - b.time): a stable sort by time.
RECURSIVE SortByTime(_)
SortByTime(s) ==
    IF s = << >> THEN << >>
    ELSE InsertByTime(SortByTime(SubSeq(s, 1, Len(s) - 1)), s[Len(s)])

\* Removal by splice(findIndex(...), 1): an absent id (index -1) takes the
\* last element away.
FilterOutIdSplice(s, id) ==
    IF \E i \in 1..Len(s) : s[i].id = id
    THEN SelectSeq(s, LAMBDA m : m.id # id)
    ELSE SubSeq(s, 1, Len(s) - 1)

\* prev.filter(m => m.id !== id)
FilterOutId(s, id) == SelectSeq(s, LAMBDA m : m.id # id)

MarkerIds(s) == {s[i].id : i \in 1..Len(s)}

---------------------------------------------------------------------------
(* Values that stand for "nothing" *)

NoSource == [offset |-> 0, duration |-> 0]
NoFrame == [offset |-> 0, duration |-> 0]
NoExport == [format |-> "none", fileName |-> "", entries |-> << >>]
NoOp == [op |-> "other", id |-> NULL]

\* No upload suspended.
NoDecoding == [f \in FileNames |-> 0]

\* The number of handleFileUpload calls suspended on the files of S.
RECURSIVE PendingDecodes(_)
PendingDecodes(S) ==
    IF S = {} THEN 0
    ELSE LET f == CHOOSE x \in S : TRUE
         IN  decoding[f] + PendingDecodes(S \ {f})

Init ==
    /\ file = NoFile
    /\ audioBuffer = NoBuffer
    /\ markers = << >>
    /\ isAnalyzing = FALSE
    /\ selectedMarkerId = NULL
    /\ config = InitialConfig
    /\ currentTime = 0
    /\ isPlaying = FALSE
    /\ ctxTime = 0
    /\ sourceNodeRef = NoSource
    /\ startTimeRef = 0
    /\ pauseOffsetRef = 0
    /\ animationFrameRef = NoFrame
    /\ decoding = NoDecoding
    /\ analysis = << >>
    /\ exported = NoExport
    /\ lastOp = NoOp

playbackVars == <<currentTime, isPlaying, ctxTime, sourceNodeRef, startTimeRef,
                  pauseOffsetRef, animationFrameRef>>

\* The main panel (transport, settings, marker list, export) is rendered only
\* while a file is selected (src/App.tsx:220, 235).
MainPanelShown == file # NoFile

---------------------------------------------------------------------------
(* File upload (src/App.tsx:36-46, 203-216) *)

\* handleFileUpload up to its first await; the inputs exist only while no
\* file is selected.
HandleFileUpload(f) ==
    /\ file = NoFile
    /\ PendingDecodes(FileNames) < MaxDecodes
    /\ file' = f
    /\ decoding' = [decoding EXCEPT ![f] = @ + 1]
    /\ exported' = NoExport
    /\ UNCHANGED <<audioBuffer, markers, isAnalyzing, selectedMarkerId, config,
                   analysis>>
    /\ UNCHANGED playbackVars

\* handleFileUpload after decodeAudioData has resolved.
DecodeDone(f) ==
    /\ decoding[f] > 0
    /\ decoding' = [decoding EXCEPT ![f] = @ - 1]
    /\ audioBuffer' = DecodeAudioData(f)
    /\ markers' = << >>
    /\ selectedMarkerId' = NULL
    /\ exported' = NoExport
    /\ UNCHANGED <<file, isAnalyzing, config, analysis>>
    /\ UNCHANGED playbackVars

\* decodeAudioData rejects: handleFileUpload ends at the await.
DecodeFail(f) ==
    /\ decoding[f] > 0
    /\ decoding' = [decoding EXCEPT ![f] = @ - 1]
    /\ exported' = NoExport
    /\ UNCHANGED <<file, audioBuffer, markers, isAnalyzing, selectedMarkerId,
                   config, analysis>>
    /\ UNCHANGED playbackVars

\* The "Cambiar Audio" button: setFile(null).
ChangeAudio ==
    /\ file # NoFile
    /\ file' = NoFile
    /\ exported' = NoExport
    /\ UNCHANGED <<audioBuffer, markers, isAnalyzing, selectedMarkerId, config,
                   decoding, analysis>>
    /\ UNCHANGED playbackVars

---------------------------------------------------------------------------
(* Analysis (src/App.tsx:48-56, 365-368) *)

\* The analysis button never disabled.
AnalysisButtonAlwaysEnabled == TRUE

\* disabled={isAnalyzing} on the analysis button.
AnalysisButtonEnabled == ~isAnalyzing

\* runAnalysis: returns early without a buffer, else sets the flag and
\* schedules the callback, which closes over audioBuffer and config.
RunAnalysis ==
    /\ MainPanelShown
    /\ AnalysisButtonEnabled
    /\ audioBuffer # NoBuffer
    /\ Len(analysis) < MaxRuns
    /\ isAnalyzing' = TRUE
    /\ analysis' = Append(analysis, [state |-> "timer", buffer |-> audioBuffer,
                                      config |-> config])
    /\ exported' = NoExport
    /\ UNCHANGED <<file, audioBuffer, markers, selectedMarkerId, config, decoding>>
    /\ UNCHANGED playbackVars

\* s without its i-th element.
RemoveAt(s, i) == SubSeq(s, 1, i - 1) \o SubSeq(s, i + 1, Len(s))

\* The timeout of the i-th run fires: the callback calls analyzeBeats and
\* awaits it.
AnalysisTimeout(i) ==
    /\ analysis[i].state = "timer"
    /\ analysis' = [analysis EXCEPT ![i].state = "running"]
    /\ exported' = NoExport
    /\ UNCHANGED <<file, audioBuffer, markers, isAnalyzing, selectedMarkerId,
                   config, decoding>>
    /\ UNCHANGED playbackVars

\* The result appended to the list instead of replacing it.
ReplaceAllAppend(prev, detected) == prev \o detected

\* setMarkers(detected)
ReplaceAll(prev, detected) == detected

\* The configuration read when the callback runs instead of the captured one.
RunConfigCurrent(run) == config

\* The config the callback of a run passes to analyzeBeats: the one its
\* closure captured when runAnalysis was called.
RunConfig(run) == run.config

\* analyzeBeats resolves: setMarkers(detected); setIsAnalyzing(false).
AnalysisComplete(i) ==
    /\ analysis[i].state = "running"
    /\ markers' = ReplaceAll(markers,
                             analyzeBeats(analysis[i].buffer, RunConfig(analysis[i])))
    /\ isAnalyzing' = FALSE
    /\ analysis' = RemoveAt(analysis, i)
    /\ exported' = NoExport
    /\ UNCHANGED <<file, audioBuffer, selectedMarkerId, config, decoding>>
    /\ UNCHANGED playbackVars

\* analyzeBeats rejects: the callback ends at the await, nothing is set.
AnalysisFail(i) ==
    /\ analysis[i].state = "running"
    /\ analysis' = RemoveAt(analysis, i)
    /\ exported' = NoExport
    /\ UNCHANGED <<file, audioBuffer, markers, isAnalyzing, selectedMarkerId,
                   config, decoding>>
    /\ UNCHANGED playbackVars

---------------------------------------------------------------------------
(* Editing the timeline (src/App.tsx:95-109, 397-399) *)

\* The selection cleared by every deletion.
SelectionClearedByDelete(id) == NULL

\* if (selectedMarkerId === id) setSelectedMarkerId(null)
SelectionAfterDelete(id) == IF selectedMarkerId = id THEN NULL ELSE selectedMarkerId

\* deleteMarker(e, id)
DeleteMarker(id) ==
    /\ MainPanelShown
    /\ markers' = FilterOutId(markers, id)
    /\ selectedMarkerId' = SelectionAfterDelete(id)
    /\ exported' = NoExport
    /\ UNCHANGED <<file, audioBuffer, isAnalyzing, config, decoding, analysis>>
    /\ UNCHANGED playbackVars

\* The insertion without its sort.
InsertMarkerNoSort(prev, m) == Append(prev, m)

\* setMarkers(prev => [...prev, newMarker].sort((a, b) => a.time - b.time))
InsertMarker(prev, m) == SortByTime(Append(prev, m))

\* addMarkerManual, Math.random() giving id
AddMarkerManual(id) ==
    /\ MainPanelShown
    /\ Len(markers) < MaxMarkers
    /\ markers' = InsertMarker(markers, ManualMarker(id, currentTime))
    /\ exported' = NoExport
    /\ UNCHANGED <<file, audioBuffer, isAnalyzing, selectedMarkerId, config,
                   decoding, analysis>>
    /\ UNCHANGED playbackVars

\* The "Borrar Todo" button, rendered while markers.length > 0.
ClearAll ==
    /\ MainPanelShown
    /\ Len(markers) > 0
    /\ markers' = << >>
    /\ selectedMarkerId' = NULL
    /\ exported' = NoExport
    /\ UNCHANGED <<file, audioBuffer, isAnalyzing, config, decoding, analysis>>
    /\ UNCHANGED playbackVars

---------------------------------------------------------------------------
(* The configuration controls (src/App.tsx:325-353) *)

SetSensitivity(v) ==
    /\ MainPanelShown
    /\ v # config.sensitivity
    /\ config' = [config EXCEPT !.sensitivity = v]
    /\ exported' = NoExport
    /\ UNCHANGED <<file, audioBuffer, markers, isAnalyzing, selectedMarkerId,
                   decoding, analysis>>
    /\ UNCHANGED playbackVars

SetMinDistance(v) ==
    /\ MainPanelShown
    /\ v # config.minDistance
    /\ config' = [config EXCEPT !.minDistance = v]
    /\ exported' = NoExport
    /\ UNCHANGED <<file, audioBuffer, markers, isAnalyzing, selectedMarkerId,
                   decoding, analysis>>
    /\ UNCHANGED playbackVars

ToggleAggressiveMode ==
    /\ MainPanelShown
    /\ config' = [config EXCEPT !.aggressiveMode = ~@]
    /\ exported' = NoExport
    /\ UNCHANGED <<file, audioBuffer, markers, isAnalyzing, selectedMarkerId,
                   decoding, analysis>>
    /\ UNCHANGED playbackVars

---------------------------------------------------------------------------
(* Playback (src/App.tsx:58-93, 111-132, 289-295) *)

\* The audio clock advances.  No handler reads the clock while nothing plays
\* (other than to record it at the next start), so the model lets it advance
\* during playback only.
ClockTick ==
    /\ isPlaying
    /\ ctxTime + ClockStep <= MaxSteps * ClockStep
    /\ ctxTime' = ctxTime + ClockStep
    /\ exported' = NoExport
    /\ UNCHANGED <<file, audioBuffer, markers, isAnalyzing, selectedMarkerId,
                   config, decoding, analysis, currentTime, isPlaying,
                   sourceNodeRef, startTimeRef, pauseOffsetRef, animationFrameRef>>

\* updateProgress: elapsed = (now - startTimeRef.current + offset) % duration,
\* offset and duration being those of the togglePlayback call that started it.
Elapsed(now, frame) == (now - startTimeRef + frame.offset) % frame.duration

\* The pause branch of togglePlayback.
PauseEffect(offsetNow) ==
    /\ pauseOffsetRef' = offsetNow + (ctxTime - startTimeRef)
    /\ animationFrameRef' = NoFrame
    /\ isPlaying' = FALSE
    /\ UNCHANGED <<sourceNodeRef, startTimeRef, ctxTime>>

\* The start branch of togglePlayback, with its first updateProgress() call.
StartEffect ==
    LET offset == pauseOffsetRef % audioBuffer.duration
        frame == [offset |-> offset, duration |-> audioBuffer.duration]
    IN  /\ sourceNodeRef' = frame
        /\ startTimeRef' = ctxTime
        /\ isPlaying' = TRUE
        /\ animationFrameRef' = frame
        /\ currentTime' = offset % audioBuffer.duration
        /\ UNCHANGED <<pauseOffsetRef, ctxTime>>

\* togglePlayback from the play/pause button.
TogglePlayback ==
    /\ MainPanelShown
    /\ audioBuffer # NoBuffer
    /\ IF isPlaying
       THEN PauseEffect(pauseOffsetRef) /\ UNCHANGED currentTime
       ELSE StartEffect
    /\ exported' = NoExport
    /\ UNCHANGED <<file, audioBuffer, markers, isAnalyzing, selectedMarkerId,
                   config, decoding, analysis>>

\* A scheduled updateProgress runs (requestAnimationFrame).
UpdateProgress ==
    /\ animationFrameRef # NoFrame
    /\ currentTime' = Elapsed(ctxTime, animationFrameRef)
    /\ currentTime' # currentTime
    /\ exported' = NoExport
    /\ UNCHANGED <<file, audioBuffer, markers, isAnalyzing, selectedMarkerId,
                   config, decoding, analysis, isPlaying, ctxTime, sourceNodeRef,
                   startTimeRef, pauseOffsetRef, animationFrameRef>>

\* The current source has played its buffer to the end: source.onended with
\* source === sourceNodeRef.current.
SourceEnded ==
    /\ isPlaying
    /\ sourceNodeRef # NoSource
    /\ ctxTime - startTimeRef >= Max(0, sourceNodeRef.duration - sourceNodeRef.offset)
    /\ isPlaying' = FALSE
    /\ animationFrameRef' = NoFrame
    /\ exported' = NoExport
    /\ UNCHANGED <<file, audioBuffer, markers, isAnalyzing, selectedMarkerId,
                   config, decoding, analysis, currentTime, ctxTime, sourceNodeRef,
                   startTimeRef, pauseOffsetRef>>

\* The resume offset left alone by a jump made during playback.
JumpOffsetWhenPaused(time) == IF isPlaying THEN pauseOffsetRef ELSE time

\* pauseOffsetRef.current = time
JumpOffset(time) == time

\* jumpToMarker(m.id, m.time) from a click on the i-th marker.
JumpToMarker(i) ==
    /\ MainPanelShown
    /\ i \in 1..Len(markers)
    /\ selectedMarkerId' = markers[i].id
    /\ currentTime' = markers[i].time
    /\ pauseOffsetRef' = JumpOffset(markers[i].time)
    /\ IF isPlaying /\ audioBuffer # NoBuffer
       THEN /\ sourceNodeRef' = [offset |-> markers[i].time,
                                 duration |-> audioBuffer.duration]
            /\ startTimeRef' = ctxTime
       ELSE UNCHANGED <<sourceNodeRef, startTimeRef>>
    /\ exported' = NoExport
    /\ UNCHANGED <<file, audioBuffer, markers, isAnalyzing, config, decoding,
                   analysis, isPlaying, ctxTime, animationFrameRef>>

\* The reset button: pauseOffsetRef.current = 0; setCurrentTime(0);
\* if (isPlaying) togglePlayback(); setSelectedMarkerId(null).
Reset ==
    /\ MainPanelShown
    /\ currentTime' = 0
    /\ IF isPlaying /\ audioBuffer # NoBuffer
       THEN PauseEffect(0)
       ELSE /\ pauseOffsetRef' = 0
            /\ UNCHANGED <<isPlaying, ctxTime, sourceNodeRef, startTimeRef,
                           animationFrameRef>>
    /\ selectedMarkerId' = NULL
    /\ exported' = NoExport
    /\ UNCHANGED <<file, audioBuffer, markers, isAnalyzing, config, decoding,
                   analysis>>

---------------------------------------------------------------------------
(* The export service: exportMarkers(markers, format, fileName)            *)
(* (src/unnamed/part_000)                                                  *)

timebase == 60

ExportFormats == {"PREMIERE_XML", "AFTER_EFFECTS_JS", "FINAL_CUT_XML"}
\* The formats the export panel has buttons for (src/App.tsx:452-468).
PanelFormats == {"PREMIERE_XML", "AFTER_EFFECTS_JS"}

\* Math.round(x) for x = num / den >= 0: halves round up.
MathRound(num, den) == (2 * num + den) \div (2 * den)

\* The frame by Math.floor instead of Math.round.
PremiereFrameFloor(t) == (t * timebase) \div TicksPerSecond

\* const frame = Math.round(m.time * timebase)
PremiereFrame(t) == MathRound(t * timebase, TicksPerSecond)

\* The decimal digits of n, most significant first, in exactly w places.
RECURSIVE Digits(_, _)
Digits(n, w) == IF w = 0 THEN << >> ELSE Append(Digits(n \div 10, w - 1), n % 10)

RECURSIVE StripTrailingZeros(_)
StripTrailingZeros(d) ==
    IF d # << >> /\ d[Len(d)] = 0
    THEN StripTrailingZeros(SubSeq(d, 1, Len(d) - 1)) ELSE d

\* Places after the decimal point that a whole number of ticks needs.
TenThousandthsPerTick == 10000 \div TicksPerSecond

\* Number::toString of a time in seconds (template literal, JSON.stringify):
\* the whole seconds and the digits after the point, no trailing zeros.
NumberToString(t) ==
    LET x == t * TenThousandthsPerTick
    IN  [whole |-> x \div 10000,
         frac |-> StripTrailingZeros(Digits(x % 10000, 4))]

\* fileName.split('.')[0]
BaseName(f) ==
    CASE f = "long.wav" -> "long"
      [] f = "short.wav" -> "short"
      [] OTHER -> f

PremiereEntry(m) ==
    [name |-> m.label, in |-> PremiereFrame(m.time), out |-> PremiereFrame(m.time)]

\* JSON.stringify(markers); the script reads markers[i].label and markers[i].time.
AfterEffectsEntry(m) ==
    [id |-> m.id, time |-> NumberToString(m.time), label |-> m.label, color |-> m.color]

\* The Final Cut marker valued with the id instead of the label.
FinalCutEntryById(m) == [start |-> NumberToString(m.time), value |-> m.id]

\* <marker start="${m.time}s" duration="0s" value="${m.label}" />
FinalCutEntry(m) == [start |-> NumberToString(m.time), value |-> m.label]

ExportEntry(m, format) ==
    CASE format = "PREMIERE_XML" -> PremiereEntry(m)
      [] format = "AFTER_EFFECTS_JS" -> AfterEffectsEntry(m)
      [] format = "FINAL_CUT_XML" -> FinalCutEntry(m)

Extension(format) == IF format = "AFTER_EFFECTS_JS" THEN "jsx" ELSE "xml"

\* The download exportMarkers produces.
exportMarkers(ms, format, fileName) ==
    [format |-> format,
     fileName |-> BaseName(fileName) \o "_markers." \o Extension(format),
     entries |-> [i \in 1..Len(ms) |-> ExportEntry(ms[i], format)]]

\* A call exportMarkers(markers, format, file?.name || 'audio').
ExportCall(format) ==
    /\ exported' = exportMarkers(markers, format, IF file = NoFile THEN "audio" ELSE file)
    /\ UNCHANGED <<file, audioBuffer, markers, isAnalyzing, selectedMarkerId,
                   config, decoding, analysis>>
    /\ UNCHANGED playbackVars

\* An export button: exportMarkers(markers, format, file?.name || 'audio'),
\* disabled while markers.length === 0.
Export(format) ==
    /\ MainPanelShown
    /\ Len(markers) > 0
    /\ exported' = exportMarkers(markers, format, file)
    /\ UNCHANGED <<file, audioBuffer, markers, isAnalyzing, selectedMarkerId,
                   config, decoding, analysis>>
    /\ UNCHANGED playbackVars

---------------------------------------------------------------------------
(* The program *)

\* Ids a deleteMarker call can carry: those of markers rendered now or before.
KnownIds == RandomIds \cup {"b1", "b2", "b3"}

\* What a step records of the call it made: nothing, or the call.
Unlogged == lastOp' = NoOp
Logged(op, id) == lastOp' = [op |-> op, id |-> id]

UploadActions ==
    \/ \E f \in FileNames : HandleFileUpload(f) /\ Unlogged
    \/ \E f \in FileNames : DecodeDone(f) /\ Unlogged
    \/ \E f \in FileNames : DecodeFail(f) /\ Unlogged
    \/ ChangeAudio /\ Unlogged

AnalysisActions ==
    \/ RunAnalysis /\ Unlogged
    \/ \E i \in 1..Len(analysis) : AnalysisTimeout(i) /\ Unlogged
    \/ \E i \in 1..Len(analysis) : AnalysisComplete(i) /\ Unlogged
    \/ \E i \in 1..Len(analysis) : AnalysisFail(i) /\ Unlogged

EditActions ==
    \/ \E id \in KnownIds : DeleteMarker(id) /\ Unlogged
    \/ \E id \in RandomIds : AddMarkerManual(id) /\ Unlogged
    \/ ClearAll /\ Unlogged

ConfigActions ==
    \/ \E v \in SensitivityValues : SetSensitivity(v) /\ Unlogged
    \/ \E v \in MinDistanceValues : SetMinDistance(v) /\ Unlogged
    \/ ToggleAggressiveMode /\ Unlogged

TransportActions ==
    \/ ClockTick /\ Unlogged
    \/ TogglePlayback /\ Unlogged
    \/ UpdateProgress /\ Unlogged

Next ==
    \/ UploadActions
    \/ AnalysisActions
    \/ EditActions
    \/ ConfigActions
    \/ TransportActions
    \/ SourceEnded /\ Unlogged
    \/ \E i \in 1..MaxMarkers : JumpToMarker(i) /\ Unlogged
    \/ Reset /\ Unlogged
    \/ \E format \in PanelFormats : Export(format) /\ Unlogged

Spec == Init /\ [][Next]_vars

\* Uploads made one at a time: a file is selected only when no decode is
\* outstanding.
SequentialUploadActions ==
    \/ \E f \in FileNames :
          PendingDecodes(FileNames) = 0 /\ HandleFileUpload(f) /\ Unlogged
    \/ \E f \in FileNames : DecodeDone(f) /\ Unlogged
    \/ \E f \in FileNames : DecodeFail(f) /\ Unlogged
    \/ ChangeAudio /\ Unlogged

\* The timeline under one-at-a-time uploads, analysis runs, manual edits and
\* playback; the configuration stays as constructed.
NextTimeline ==
    \/ SequentialUploadActions
    \/ AnalysisActions
    \/ EditActions
    \/ TransportActions

SpecTimeline == Init /\ [][NextTimeline]_vars

\* Analysis runs under uploads and configuration changes.
NextAnalysis ==
    \/ UploadActions
    \/ AnalysisActions
    \/ ConfigActions

SpecAnalysis == Init /\ [][NextAnalysis]_vars

IsSortedByTime(s) == \A i \in 1..(Len(s) - 1) : s[i].time <= s[i + 1].time
IsManual(m) == m.label = "Manual Beat"

---------------------------------------------------------------------------
(* The edit operations applied to timelines drawn from a bounded set *)

\* The playback times the edits start from (99.5 ms, 199.5 ms, 400 ms).
EditTimes == {199, 399, 800}

\* The markers of the drawn timelines: the beats of long.wav under the
\* initial configuration and manual markers made at the edit times.
EditMarkers ==
    LET beats == analyzeBeats(DecodeAudioData("long.wav"), InitialConfig)
    IN  {beats[i] : i \in 1..Len(beats)}
        \cup {ManualMarker(id, t) : id \in RandomIds, t \in EditTimes}

\* Timelines the program can hold: sorted by time, ids distinct, and a
\* detected marker before a manual one of the same time.
EditTimelines ==
    {s \in UNION {[1..n -> EditMarkers] : n \in 0..(MaxMarkers - 1)} :
        /\ IsSortedByTime(s)
        /\ \A i, j \in 1..Len(s) : i < j =>
              /\ s[i].id # s[j].id
              /\ s[i].time = s[j].time => ~(IsManual(s[i]) /\ ~IsManual(s[j]))}

InitEdit ==
    /\ file = "long.wav"
    /\ audioBuffer = DecodeAudioData("long.wav")
    /\ markers \in EditTimelines
    /\ isAnalyzing = FALSE
    /\ selectedMarkerId \in {NULL} \cup MarkerIds(markers)
    /\ config = InitialConfig
    /\ currentTime \in EditTimes
    /\ isPlaying = FALSE
    /\ ctxTime = 0
    /\ sourceNodeRef = NoSource
    /\ startTimeRef = 0
    /\ pauseOffsetRef = 0
    /\ animationFrameRef = NoFrame
    /\ decoding = NoDecoding
    /\ analysis = << >>
    /\ exported = NoExport
    /\ lastOp = NoOp

NextEdit ==
    \/ \E id \in RandomIds : AddMarkerManual(id) /\ Logged("addMarkerManual", id)
    \/ \E id \in KnownIds :
          DeleteMarker(id)
          /\ Logged(IF id \in MarkerIds(markers) THEN "deleteMarker"
                    ELSE "deleteAbsent", id)
    \/ ClearAll /\ Logged("clearAll", NULL)

SpecEdit == InitEdit /\ [][NextEdit]_vars

---------------------------------------------------------------------------
(* analyzeBeats applied to buffers and configurations drawn from bounded sets *)

\* Buffers of MaxSamples samples (0.7 s) with amplitudes 0, 1, 2.
MaxSamples == 7
AnalyzeBuffers ==
    {[duration |-> MaxSamples * SampleTicks, samples |-> x] :
        x \in [1..MaxSamples -> {0, 1, 2}]}

AnalyzeConfigs ==
    [sensitivity : SensitivityValues, minDistance : {300, 500},
     aggressiveMode : BOOLEAN]

InitAnalyze ==
    /\ file = "long.wav"
    /\ audioBuffer \in AnalyzeBuffers
    /\ markers = << >>
    /\ isAnalyzing = FALSE
    /\ selectedMarkerId = NULL
    /\ config \in AnalyzeConfigs
    /\ currentTime = 0
    /\ isPlaying = FALSE
    /\ ctxTime = 0
    /\ sourceNodeRef = NoSource
    /\ startTimeRef = 0
    /\ pauseOffsetRef = 0
    /\ animationFrameRef = NoFrame
    /\ decoding = NoDecoding
    /\ analysis = << >>
    /\ exported = NoExport
    /\ lastOp = NoOp

NextAnalyze ==
    \/ RunAnalysis /\ Logged("runAnalysis", NULL)
    \/ \E i \in 1..Len(analysis) : AnalysisTimeout(i) /\ Logged("timeout", NULL)
    \/ \E i \in 1..Len(analysis) : AnalysisComplete(i) /\ Logged("replaceAll", NULL)
    \/ \E i \in 1..Len(analysis) : AnalysisFail(i) /\ Logged("analysisFailed", NULL)

SpecAnalyze == InitAnalyze /\ [][NextAnalyze]_vars

---------------------------------------------------------------------------
(* exportMarkers applied to timelines drawn from a bounded set *)

\* Marker times from half a millisecond apart to frames apart.
ExportTimes == {0, 1, 2, 17, 34, 399}

\* A choice <<t, manual>> for the n-th marker of a drawn timeline: detected,
\* or manual when t is a whole number of milliseconds.
ExportMarkerAt(n, c) ==
    IF c[2] THEN ManualMarker("r1", c[1]) ELSE BeatMarker(n, c[1])

ExportChoices(n) ==
    {c \in [1..n -> ExportTimes \X BOOLEAN] :
        /\ \A i \in 1..n : c[i][2] => toFixed3(c[i][1]) = c[i][1]
        /\ \A i \in 1..(n - 1) : c[i][1] < c[i + 1][1]
        /\ \A i, j \in 1..n : (c[i][2] /\ c[j][2]) => i = j}

ExportTimelines ==
    UNION {{[i \in 1..n |-> ExportMarkerAt(i, c[i])] : c \in ExportChoices(n)} :
              n \in 1..MaxMarkers}

InitExport ==
    /\ file = "long.wav"
    /\ audioBuffer = DecodeAudioData("long.wav")
    /\ markers \in ExportTimelines
    /\ isAnalyzing = FALSE
    /\ selectedMarkerId = NULL
    /\ config = InitialConfig
    /\ currentTime = 0
    /\ isPlaying = FALSE
    /\ ctxTime = 0
    /\ sourceNodeRef = NoSource
    /\ startTimeRef = 0
    /\ pauseOffsetRef = 0
    /\ animationFrameRef = NoFrame
    /\ decoding = NoDecoding
    /\ analysis = << >>
    /\ exported = NoExport
    /\ lastOp = NoOp

NextExport == \E format \in ExportFormats : ExportCall(format) /\ Logged("export", NULL)

SpecExport == InitExport /\ [][NextExport]_vars

---------------------------------------------------------------------------
(* Analysis runs of a loaded file under changes of the configuration *)

InitSettings ==
    /\ file \in FileNames
    /\ audioBuffer = DecodeAudioData(file)
    /\ markers = << >>
    /\ isAnalyzing = FALSE
    /\ selectedMarkerId = NULL
    /\ config = InitialConfig
    /\ currentTime = 0
    /\ isPlaying = FALSE
    /\ ctxTime = 0
    /\ sourceNodeRef = NoSource
    /\ startTimeRef = 0
    /\ pauseOffsetRef = 0
    /\ animationFrameRef = NoFrame
    /\ decoding = NoDecoding
    /\ analysis = << >>
    /\ exported = NoExport
    /\ lastOp = NoOp

NextSettings ==
    \/ RunAnalysis /\ Logged("runAnalysis", NULL)
    \/ \E i \in 1..Len(analysis) : AnalysisTimeout(i) /\ Logged("timeout", NULL)
    \/ \E i \in 1..Len(analysis) : AnalysisComplete(i) /\ Logged("replaceAll", NULL)
    \/ \E i \in 1..Len(analysis) : AnalysisFail(i) /\ Logged("analysisFailed", NULL)
    \/ \E v \in SensitivityValues : SetSensitivity(v) /\ Logged("config", NULL)
    \/ \E v \in MinDistanceValues : SetMinDistance(v) /\ Logged("config", NULL)
    \/ ToggleAggressiveMode /\ Logged("config", NULL)

SpecSettings == InitSettings /\ [][NextSettings]_vars

---------------------------------------------------------------------------
(* The export buttons next to the edit operations *)

NextPanel ==
    \/ NextEdit
    \/ \E format \in PanelFormats : Export(format) /\ Logged("export", NULL)

SpecPanel == InitEdit /\ [][NextPanel]_vars

---------------------------------------------------------------------------
(* Playback of a loaded and analysed file *)

InitPlayback ==
    /\ file \in FileNames
    /\ audioBuffer = DecodeAudioData(file)
    /\ markers = analyzeBeats(audioBuffer, InitialConfig)
    /\ isAnalyzing = FALSE
    /\ selectedMarkerId = NULL
    /\ config = InitialConfig
    /\ currentTime = 0
    /\ isPlaying = FALSE
    /\ ctxTime = 0
    /\ sourceNodeRef = NoSource
    /\ startTimeRef = 0
    /\ pauseOffsetRef = 0
    /\ animationFrameRef = NoFrame
    /\ decoding = NoDecoding
    /\ analysis = << >>
    /\ exported = NoExport
    /\ lastOp = NoOp

NextPlayback ==
    \/ ClockTick /\ Logged("clock", NULL)
    \/ TogglePlayback /\ Logged("togglePlayback", NULL)
    \/ UpdateProgress /\ Logged("updateProgress", NULL)
    \/ SourceEnded /\ Logged("ended", NULL)
    \/ \E i \in 1..MaxMarkers : JumpToMarker(i) /\ Logged("jumpToMarker", markers[i].id)
    \/ Reset /\ Logged("reset", NULL)

SpecPlayback == InitPlayback /\ [][NextPlayback]_vars

---------------------------------------------------------------------------
(* The peak picker on buffers whose strength curves hold plateaus *)

\* Buffers of MaxFrames two-sample frames, the frames drawn from pairs whose
\* energies (0, 1, 2, 5, 9, 13) rise by equal steps after a smaller or a
\* larger step.
MaxFrames == 4
PeakFrames == {<<0, 0>>, <<1, 0>>, <<1, 1>>, <<2, 1>>, <<3, 0>>, <<3, 2>>}
PeakBuffers ==
    {[duration |-> 2 * MaxFrames * SampleTicks,
      samples |-> [i \in 1..(2 * MaxFrames) |-> f[(i + 1) \div 2][((i - 1) % 2) + 1]]] :
        f \in [1..MaxFrames -> PeakFrames]}

InitPeaks ==
    /\ file = "long.wav"
    /\ audioBuffer \in PeakBuffers
    /\ markers = << >>
    /\ isAnalyzing = FALSE
    /\ selectedMarkerId = NULL
    /\ config \in AnalyzeConfigs
    /\ currentTime = 0
    /\ isPlaying = FALSE
    /\ ctxTime = 0
    /\ sourceNodeRef = NoSource
    /\ startTimeRef = 0
    /\ pauseOffsetRef = 0
    /\ animationFrameRef = NoFrame
    /\ decoding = NoDecoding
    /\ analysis = << >>
    /\ exported = NoExport
    /\ lastOp = NoOp

SpecPeaks == InitPeaks /\ [][NextAnalyze]_vars

---------------------------------------------------------------------------
(* The selection under uploads, analysis runs, edits and jumps *)

NextSelection ==
    \/ SequentialUploadActions
    \/ AnalysisActions
    \/ EditActions
    \/ \E i \in 1..MaxMarkers : JumpToMarker(i) /\ Unlogged

SpecSelection == Init /\ [][NextSelection]_vars

---------------------------------------------------------------------------
(* Overlapping uploads whose decodes all succeed, with markers added in *)
(* between                                                              *)

NextUpload ==
    \/ \E f \in FileNames : HandleFileUpload(f) /\ Logged("handleFileUpload", f)
    \/ \E f \in FileNames : DecodeDone(f) /\ Logged("decoded", f)
    \/ ChangeAudio /\ Logged("changeAudio", NULL)
    \/ \E id \in RandomIds : AddMarkerManual(id) /\ Logged("addMarkerManual", id)

SpecUpload == Init /\ [][NextUpload]_vars

---------------------------------------------------------------------------
(* Properties *)

\* C1: in every reachable state the marker list is sorted ascending by time,
\* after any sequence of uploads, analysis completions, manual insertions,
\* deletions and clear-all.
C1_MarkersSorted == IsSortedByTime(markers)

\* C1 witness: a manual marker stands between two detected ones, the three
\* at increasing times.
C1_Witness ==
    /\ Len(markers) = 3
    /\ ~IsManual(markers[1]) /\ IsManual(markers[2]) /\ ~IsManual(markers[3])
    /\ markers[1].time < markers[2].time
    /\ markers[2].time < markers[3].time

\* C2: in every reachable state no two markers of the timeline have the same
\* id.
C2_UniqueIds ==
    \A i, j \in 1..Len(markers) : i # j => markers[i].id # markers[j].id

\* C3: at most one analysis run is scheduled or executing at any time, and a
\* run in flight keeps the busy flag set, which disables the analysis button.
C3_AtMostOneRun ==
    /\ Len(analysis) <= 1
    /\ Len(analysis) = 1 => isAnalyzing /\ ~AnalysisButtonEnabled

\* C3 witness: a run is executing while the panel with the analysis button
\* is shown and a buffer is loaded.
C3_Witness ==
    /\ Len(analysis) = 1
    /\ analysis[1].state = "running"
    /\ MainPanelShown
    /\ audioBuffer # NoBuffer

\* C4: the end of every analysis run, by completion or by failure, clears
\* the busy flag.
C4_RunEndClearsFlag ==
    [][Len(analysis') < Len(analysis) => ~isAnalyzing']_vars

\* The markers of t that are not markers of s.
NewMarkers(s, t) == {t[i] : i \in 1..Len(t)} \ {s[i] : i \in 1..Len(s)}

\* A step in which a run ends and clears the busy flag: its completion.
IsCompletionStep == Len(analysis') < Len(analysis) /\ isAnalyzing /\ ~isAnalyzing'

\* C5: the step that completes a run leaves exactly the complete result of
\* that run in the timeline, and no other step brings a detected marker in:
\* the list is a pre-replacement list or the whole result, never a mixture.
C5_AtomicReplace ==
    [][/\ IsCompletionStep =>
            \E i \in 1..Len(analysis) :
                markers' = analyzeBeats(analysis[i].buffer, analysis[i].config)
       /\ ~IsCompletionStep =>
            \A m \in NewMarkers(markers, markers') : IsManual(m)]_vars

\* C5 witness: the timeline is the whole two-marker result of a finished run.
C5_Witness ==
    /\ analysis = << >>
    /\ ~isAnalyzing
    /\ Len(markers) >= 2
    /\ markers = analyzeBeats(audioBuffer, config)

\* C6: every marker of the timeline has a time t with 0 <= t < duration of
\* the loaded audio buffer.
C6_TimesInRange ==
    audioBuffer # NoBuffer =>
        \A i \in 1..Len(markers) :
            0 <= markers[i].time /\ markers[i].time < audioBuffer.duration

\* C7: a manual insertion into a sorted timeline yields a sorted timeline
\* that holds exactly the previous markers, in their order, plus the new one,
\* which stands after every marker whose time is <= its own and before every
\* later one.
C7_InsertKeepsOrder ==
    [][lastOp'.op = "addMarkerManual" =>
        /\ IsSortedByTime(markers) => IsSortedByTime(markers')
        /\ \E p \in 1..Len(markers') :
              /\ markers'[p] = ManualMarker(lastOp'.id, currentTime)
              /\ RemoveAt(markers', p) = markers
              /\ \A i \in 1..(p - 1) : markers'[i].time <= markers'[p].time
              /\ \A i \in (p + 1)..Len(markers') :
                    markers'[i].time > markers'[p].time]_vars

\* C7 witness: the marker just inserted stands right after a marker of the
\* same time and before a later one.
C7_Witness ==
    /\ lastOp.op = "addMarkerManual"
    /\ \E p \in 2..(Len(markers) - 1) :
          /\ markers[p].id = lastOp.id
          /\ markers[p - 1].id # lastOp.id
          /\ markers[p - 1].time = markers[p].time
          /\ markers[p + 1].time > markers[p].time

IsDelete(op) == op.op \in {"deleteMarker", "deleteAbsent"}

\* C8: removing an id that is not in the timeline leaves the marker list
\* unchanged, so a second removal of the same id changes nothing.
C8_RemoveAbsentIsNoOp ==
    [][/\ lastOp'.op = "deleteAbsent" => markers' = markers
       /\ IsDelete(lastOp) /\ IsDelete(lastOp') /\ lastOp'.id = lastOp.id
            => markers' = markers]_vars

\* C8 witness: the last call removed an id absent from a timeline of two or
\* more markers.
C8_Witness ==
    /\ lastOp.op = "deleteAbsent"
    /\ Len(markers) >= 2

\* C9: in the marker list one analysis run produces, two markers at
\* different times are at least minDistance apart; the first raw candidate is
\* accepted and each marker is a raw candidate.
C9_MinDistance ==
    lastOp.op = "replaceAll" =>
        LET cand == RawCandidates(OnsetStrength(audioBuffer, config), config)
            candTimes == {FrameTime(cand[i], config) : i \in 1..Len(cand)}
        IN  /\ \A i, j \in 1..Len(markers) :
                  markers[i].time < markers[j].time
                      => markers[j].time - markers[i].time >= config.minDistance
            /\ \A i \in 1..Len(markers) : markers[i].time \in candTimes
            /\ cand # << >> =>
                  /\ markers # << >>
                  /\ markers[1].time = FrameTime(cand[1], config)

\* C9 witness: a run produced two or more markers and suppressed a candidate
\* that came too soon after an accepted one.
C9_Witness ==
    /\ lastOp.op = "replaceAll"
    /\ Len(markers) >= 2
    /\ Len(RawCandidates(OnsetStrength(audioBuffer, config), config)) > Len(markers)

\* Positions and times in units of 1 / UnitsPerSecond seconds.
UnitsPerSecond == timebase * 10000
UnitsPerMs == UnitsPerSecond \div 1000
TimeUnits(t) == t * (UnitsPerSecond \div TicksPerSecond)

\* The value a decimal string denotes, in ten-thousandths.
DecimalValue(d) ==
    d.whole * 10000
    + SumSeq([i \in 1..Len(d.frac) |-> d.frac[i] * 10 ^ (4 - i)])

\* The position the i-th exported entry gives its marker.
PositionUnits(i) ==
    CASE exported.format = "PREMIERE_XML" ->
            exported.entries[i].in * (UnitsPerSecond \div timebase)
      [] exported.format = "AFTER_EFFECTS_JS" ->
            DecimalValue(exported.entries[i].time) * (UnitsPerSecond \div 10000)
      [] exported.format = "FINAL_CUT_XML" ->
            DecimalValue(exported.entries[i].start) * (UnitsPerSecond \div 10000)

Abs(x) == IF x < 0 THEN -x ELSE x

\* The error of the i-th exported position.
PositionError(i) == Abs(PositionUnits(i) - TimeUnits(markers[i].time))

\* C10 as stated: in every format the exported position is within 1 ms of
\* the marker time, and markers 1 ms or more apart get different positions.
C10_MillisecondPrecision ==
    exported # NoExport =>
        /\ \A i \in 1..Len(markers) : PositionError(i) < UnitsPerMs
        /\ \A i, j \in 1..Len(markers) :
              Abs(TimeUnits(markers[i].time) - TimeUnits(markers[j].time)) >= UnitsPerMs
                  => PositionUnits(i) # PositionUnits(j)

\* C10 amended: the After Effects script and the Final Cut XML give each
\* marker its exact time; the Premiere XML gives the nearest frame at timebase
\* 60, within half a frame of the marker time, and different frames to
\* markers a frame or more apart.
C10_ExportPrecision ==
    exported # NoExport =>
        IF exported.format = "PREMIERE_XML"
        THEN /\ \A i \in 1..Len(markers) :
                   2 * PositionError(i) <= UnitsPerSecond \div timebase
             /\ \A i, j \in 1..Len(markers) :
                   Abs(TimeUnits(markers[i].time) - TimeUnits(markers[j].time))
                       >= UnitsPerSecond \div timebase
                   => PositionUnits(i) # PositionUnits(j)
        ELSE \A i \in 1..Len(markers) : PositionError(i) = 0

\* C10 witness: a Premiere export gave two markers 1 ms or more apart the
\* same frame, and another marker a later frame.
C10_Witness ==
    /\ exported.format = "PREMIERE_XML"
    /\ Len(markers) = 3
    /\ markers[2].time - markers[1].time >= TicksPerMs
    /\ exported.entries[1].in = exported.entries[2].in
    /\ exported.entries[3].in > exported.entries[2].in

\* The label the i-th exported entry carries.
EntryLabel(i) ==
    CASE exported.format = "PREMIERE_XML" -> exported.entries[i].name
      [] exported.format = "AFTER_EFFECTS_JS" -> exported.entries[i].label
      [] exported.format = "FINAL_CUT_XML" -> exported.entries[i].value

\* Whether the i-th exported entry carries the color of its marker.
EntryHasColor(i) ==
    /\ "color" \in DOMAIN exported.entries[i]
    /\ exported.entries[i].color = markers[i].color

\* C11 as stated: in every format each exported entry carries the label and
\* the color of its marker unchanged.
C11_LabelAndColor ==
    exported # NoExport =>
        \A i \in 1..Len(markers) :
            EntryLabel(i) = markers[i].label /\ EntryHasColor(i)

\* C11 amended: in every format each exported entry carries the label of its
\* marker unchanged; the color is carried by the After Effects script only,
\* the Premiere XML and the Final Cut XML entries hold no color.
C11_LabelPassThrough ==
    exported # NoExport =>
        \A i \in 1..Len(markers) :
            /\ EntryLabel(i) = markers[i].label
            /\ EntryHasColor(i) <=> exported.format = "AFTER_EFFECTS_JS"
            /\ exported.format # "AFTER_EFFECTS_JS"
                  => "color" \notin DOMAIN exported.entries[i]

\* C11 witness: a Final Cut export of a timeline holding a detected and a
\* manual marker, whose labels and colors differ.
C11_Witness ==
    /\ exported.format = "FINAL_CUT_XML"
    /\ \E i, j \in 1..Len(markers) :
          /\ IsManual(markers[i]) /\ ~IsManual(markers[j])
          /\ markers[i].color # markers[j].color
          /\ EntryLabel(i) = "Manual Beat"
          /\ EntryLabel(j) # "Manual Beat"

\* C12: a run is requested with the configuration of that moment, later
\* changes of the configuration leave what the run holds untouched, and the
\* markers the run installs are those of the configuration it was requested
\* with.
C12_ConfigSnapshot ==
    [][/\ Len(analysis') > Len(analysis)
            => analysis'[Len(analysis')].config = config
       /\ Len(analysis') = Len(analysis)
            => \A i \in 1..Len(analysis) :
                   /\ analysis'[i].config = analysis[i].config
                   /\ analysis'[i].buffer = analysis[i].buffer
       /\ lastOp'.op = "replaceAll"
            => /\ Len(analysis) = 1
               /\ markers' = analyzeBeats(audioBuffer, analysis[1].config)]_vars

\* C12 witness: a run has just installed markers that differ from what the
\* configuration of now would give: the configuration changed after the
\* request.
C12_Witness ==
    /\ lastOp.op = "replaceAll"
    /\ Len(markers) >= 2
    /\ markers # analyzeBeats(audioBuffer, config)

\* The number of markers of s before position i that have the given id.
CountIdBefore(s, i, id) == Cardinality({j \in 1..(i - 1) : s[j].id = id})

\* C13: deleting an id that is in the timeline removes exactly the markers
\* with that id, every other marker stays, in the same relative order, and the
\* selection is cleared if the deleted id was the selected one and is kept
\* otherwise.
C13_DeleteRemovesExactly ==
    [][lastOp'.op = "deleteMarker" =>
          LET id == lastOp'.id
          IN  /\ \A k \in 1..Len(markers') : markers'[k].id # id
              /\ Len(markers') = Len(markers) - CountIdBefore(markers, Len(markers) + 1, id)
              /\ \A i \in 1..Len(markers) :
                    markers[i].id # id
                        => markers'[i - CountIdBefore(markers, i, id)] = markers[i]
              /\ selectedMarkerId' = IF selectedMarkerId = id THEN NULL
                                     ELSE selectedMarkerId]_vars

\* C13 witness: a marker between two others was deleted while another one
\* was selected; the selection stands.
C13_Witness ==
    /\ lastOp.op = "deleteMarker"
    /\ Len(markers) >= 2
    /\ lastOp.id \notin MarkerIds(markers)
    /\ selectedMarkerId \in MarkerIds(markers)

\* C14: an export holds exactly one entry per marker of the current
\* timeline, in the order of the timeline, and that timeline is ordered by
\* time and free of duplicate ids at the moment of export.
C14_ExportedList ==
    exported # NoExport =>
        /\ Len(exported.entries) = Len(markers)
        /\ \A i \in 1..Len(markers) :
              exported.entries[i] = ExportEntry(markers[i], exported.format)
        /\ IsSortedByTime(markers)
        /\ \A i, j \in 1..Len(markers) : i # j => markers[i].id # markers[j].id

\* C15: a jump to a marker makes its id the selected one and sets the
\* reported current time and the resume offset to the marker's time, during
\* playback and while paused alike, and leaves playing what was playing; the
\* selection is one id or none.
C15_JumpSelectsAndSeeks ==
    [][lastOp'.op = "jumpToMarker" =>
          /\ \E i \in 1..Len(markers) :
                /\ markers[i].id = lastOp'.id
                /\ selectedMarkerId' = markers[i].id
                /\ currentTime' = markers[i].time
                /\ pauseOffsetRef' = markers[i].time
          /\ isPlaying' = isPlaying
          /\ selectedMarkerId' \in KnownIds]_vars

\* C15 witness: a jump made during playback, after the clock has advanced,
\* to a marker later than the start of the buffer.
C15_Witness ==
    /\ lastOp.op = "jumpToMarker"
    /\ isPlaying
    /\ ctxTime > 0
    /\ selectedMarkerId = lastOp.id
    /\ currentTime > 0
    /\ pauseOffsetRef = currentTime

\* The offset of the buffer at which the next start of playback begins.
NextStartOffset == pauseOffsetRef % audioBuffer.duration

\* C20: after the reset control playback is stopped, the reported current
\* time is 0, the selection is cleared and the next start of playback begins
\* at offset 0.
C20_ResetRewinds ==
    lastOp.op = "reset" =>
        /\ ~isPlaying
        /\ currentTime = 0
        /\ selectedMarkerId = NULL
        /\ NextStartOffset = 0

\* Frames a..b of the strength curve s form a plateau: a maximal run of two
\* or more frames of equal strength.
IsPlateau(s, a, b) ==
    /\ a < b
    /\ \A k \in a..b : s[k] = s[a]
    /\ a > 1 => s[a - 1] # s[a]
    /\ b < Len(s) => s[b + 1] # s[a]

\* The plateaus of the loaded buffer whose frames all exceed their local
\* threshold, as pairs <<first frame, last frame>>.
PlateausAboveThreshold ==
    LET s == OnsetStrength(audioBuffer, config)
    IN  {p \in (1..Len(s)) \X (1..Len(s)) :
            /\ IsPlateau(s, p[1], p[2])
            /\ \A k \in p[1]..p[2] : ExceedsThreshold(s, k, config)}

\* The raw candidates among the frames a..b.
CandidatesWithin(a, b) ==
    LET cand == RawCandidates(OnsetStrength(audioBuffer, config), config)
    IN  {cand[i] : i \in 1..Len(cand)} \cap (a..b)

\* C16 as stated: every plateau above the threshold yields exactly one raw
\* candidate, its earliest frame.
C16_PlateauOneCandidate ==
    \A p \in PlateausAboveThreshold : CandidatesWithin(p[1], p[2]) = {p[1]}

\* C16 amended: a plateau above the threshold yields at most one raw
\* candidate, never a frame other than its earliest, and it yields that one
\* exactly when the plateau is entered by a rise (its earliest frame is
\* strictly greater than the frame before it, or is the first frame).
C16_PlateauEarliestOnRise ==
    LET s == OnsetStrength(audioBuffer, config)
    IN  \A p \in PlateausAboveThreshold :
            /\ CandidatesWithin(p[1], p[2]) \subseteq {p[1]}
            /\ CandidatesWithin(p[1], p[2]) = {p[1]}
                  <=> (p[1] = 1 \/ s[p[1]] > s[p[1] - 1])

\* C16 witness: a run on a buffer with a plateau above the threshold that is
\* entered by a rise has installed a marker at the plateau's earliest frame.
C16_Witness ==
    /\ lastOp.op = "replaceAll"
    /\ \E p \in PlateausAboveThreshold :
          /\ CandidatesWithin(p[1], p[2]) = {p[1]}
          /\ \E i \in 1..Len(markers) : markers[i].time = FrameTime(p[1], config)

\* C17: in every reachable state the selected marker id is null or the id
\* of a marker of the timeline.
C17_SelectionInTimeline ==
    selectedMarkerId = NULL \/ selectedMarkerId \in MarkerIds(markers)

\* The configurations the controls can set.
ConfigValues ==
    [sensitivity : SensitivityValues, minDistance : MinDistanceValues,
     aggressiveMode : BOOLEAN]

\* C18: markers installed by an analysis run are the result of analysing
\* the buffer that is loaded now; the result of a run of a previous buffer is
\* not installed beside a newer buffer.
C18_MarkersOfLoadedBuffer ==
    markers # << >> =>
        \E cfg \in ConfigValues : markers = analyzeBeats(audioBuffer, cfg)

\* C19: once every decode has completed, the loaded buffer is the decoding
\* of the file recorded as selected, whatever order the decodes finished in.
C19_BufferOfSelectedFile ==
    (PendingDecodes(FileNames) = 0 /\ file # NoFile)
        => audioBuffer = DecodeAudioData(file)

\* The position of the audio being heard: where the current source was
\* started plus the time elapsed since, modulo the buffer duration.
HeardPosition ==
    (sourceNodeRef.offset + (ctxTime - startTimeRef)) % sourceNodeRef.duration

\* C21: while playback is running, the current time that updateProgress has
\* just reported is the position of the audio being heard, also after a jump
\* to a marker made during playback.
C21_ReportedTimeFollowsSource ==
    (isPlaying /\ lastOp.op = "updateProgress") => currentTime = HeardPosition

===========================================================================
